---- MODULE Spec2Model ----
(***************************************************************************)
(* Model of NedResourceCache (src/omnetpp-6.0.1/src/nedxml/                *)
(* nedresourcecache.cc): the file index, the package.ned index, the        *)
(* pending list, the type index and the operations that load files and     *)
(* register the types they declare.                                        *)
(*                                                                         *)
(* Strings are modelled by their parts: a path is the sequence of its      *)
(* '/'-separated components (an absolute path starts with the empty        *)
(* component), a qualified name or import pattern is the sequence of its   *)
(* '.'-separated segments, and the empty string is the empty sequence.     *)
(* nedFiles, packageDotNedFiles, nedTypes and folderPackages are maps      *)
(* ordered by key; disk is the content of the file system.                 *)
(***************************************************************************)
EXTENDS Integers, Sequences, FiniteSets, TLC

VARIABLES nedFiles, packageDotNedFiles, nedTypes, nedTypeNames, pendingList,
          doneLoadingNedFilesCalled, folderPackages, disk, lastCall, lastError,
          lastErrorNames, lastResult, lastPasses

vars == <<nedFiles, packageDotNedFiles, nedTypes, nedTypeNames, pendingList,
          doneLoadingNedFilesCalled, folderPackages, disk, lastCall, lastError,
          lastErrorNames, lastResult, lastPasses>>

\* the four containers the cache owns besides the derived type-name listing
cache == <<nedFiles, packageDotNedFiles, pendingList, nedTypes>>

\* at most this many files are loaded into one cache
MaxFiles == 3

-----------------------------------------------------------------------------
(* Strings and their order                                                 *)

\* every path component and name segment of the model, in byte order
Alphabet ==
    <<"", "A", "A.ned", "B", "B.ned", "C", "D", "E", "IdealChannel", "Inner",
      "M.ned", "Outer", "User", "Zed", "[built-in-declarations]", "a", "ned",
      "p", "package.ned", "pkg", "q", "r", "t1", "t2", "t3", "t4", "t5", "t6",
      "zzz">>

Rank(s) == CHOOSE i \in 1..Len(Alphabet) : Alphabet[i] = s

\* a < b for two strings given by their parts (std::string operator<)
RECURSIVE StrLess(_, _)
StrLess(a, b) ==
    IF b = <<>> THEN FALSE
    ELSE IF a = <<>> THEN TRUE
    ELSE IF Rank(Head(a)) # Rank(Head(b)) THEN Rank(Head(a)) < Rank(Head(b))
    ELSE StrLess(Tail(a), Tail(b))

\* the keys of a map in the order a range-for visits them
RECURSIVE KeysInOrder(_)
KeysInOrder(S) ==
    IF S = {} THEN <<>>
    ELSE LET first == CHOOSE k \in S : \A o \in S \ {k} : StrLess(k, o)
         IN  <<first>> \o KeysInOrder(S \ {first})

Front(s) == SubSeq(s, 1, Len(s) - 1)

Last(s) == s[Len(s)]

\* s without its element at position i
RemoveAt(s, i) == SubSeq(s, 1, i - 1) \o SubSeq(s, i + 1, Len(s))

-----------------------------------------------------------------------------
(* Syntax trees                                                            *)

TypeTags ==
    {"channel", "channel-interface", "simple-module", "compound-module",
     "module-interface"}

Child(tag, name) == [tag |-> tag, name |-> name]

\* a type declaration: its tag, name, direct children and its types block
Decl(tag, name, children, types) ==
    [tag |-> tag, name |-> name, children |-> children, types |-> types]

\* the result of parsing a source text; valid = FALSE when parsing or
\* validation reports an error
Tree(valid, package, imports, types) ==
    [valid |-> valid, package |-> package, imports |-> imports, types |-> types]

NedA ==
    Tree(TRUE, <<"p">>, <<>>,
         <<Decl("simple-module", "A", <<Child("extends", <<"B">>)>>, <<>>)>>)

NedB ==
    Tree(TRUE, <<"p">>, <<>>,
         <<Decl("simple-module", "B", <<Child("parameters", <<>>)>>, <<>>)>>)

NedCyc ==
    Tree(TRUE, <<>>, <<>>,
         <<Decl("channel", "C", <<Child("extends", <<"D">>)>>, <<>>),
           Decl("channel", "D", <<Child("extends", <<"C">>)>>, <<>>)>>)

NedOuter ==
    Tree(TRUE, <<"p">>, <<>>,
         <<Decl("compound-module", "Outer", <<>>,
                <<Decl("compound-module", "User",
                       <<Child("extends", <<"Inner">>),
                         Child("interface-name", <<"p", "B">>)>>, <<>>),
                  Decl("simple-module", "Inner", <<>>, <<>>)>>)>>)

NedImp ==
    Tree(TRUE, <<"q">>, <<<<"p", "*">>>>,
         <<Decl("simple-module", "E", <<Child("extends", <<"B">>)>>, <<>>)>>)

NedMark == Tree(TRUE, <<"p">>, <<>>, <<>>)

NedRB ==
    Tree(TRUE, <<"r">>, <<>>, <<Decl("simple-module", "B", <<>>, <<>>)>>)

NedQB ==
    Tree(TRUE, <<"q">>, <<>>, <<Decl("simple-module", "B", <<>>, <<>>)>>)

NedQ ==
    Tree(TRUE, <<"q">>, <<<<"r", "B">>, <<"*", "B">>>>,
         <<Decl("compound-module", "Outer", <<>>,
                <<Decl("simple-module", "B", <<>>, <<>>)>>)>>)

NedZ ==
    Tree(TRUE, <<"Zed">>, <<<<"*", "B">>>>,
         <<Decl("simple-module", "E", <<Child("extends", <<"B">>)>>, <<>>)>>)

NedBad == Tree(FALSE, <<>>, <<>>, <<>>)

NedM ==
    Tree(TRUE, <<"zzz">>, <<>>, <<Decl("simple-module", "A", <<>>, <<>>)>>)

NedPkg == Tree(TRUE, <<"pkg">>, <<>>, <<>>)

\* NedParser::getBuiltInDeclarations(), parsed
NedBuiltin ==
    Tree(TRUE, <<"ned">>, <<>>, <<Decl("channel", "IdealChannel", <<>>, <<>>)>>)

\* the source texts a caller may pass to loadNedText
Texts == {NedA, NedB, NedCyc, NedOuter, NedImp, NedMark, NedBad}

\* the names a caller may give to a text
TextNames == {<<"t1">>, <<"package.ned">>}

\* the .ned files on disk, by canonical path
Disk ==
    (<<"", "r", "p", "A.ned">> :> NedA) @@
    (<<"", "r", "p", "B.ned">> :> NedB) @@
    (<<"", "r", "p", "package.ned">> :> NedMark)

\* the same with a folder /r/pkg whose subfolder a holds a file that
\* declares package zzz
DiskBare == Disk @@ (<<"", "r", "pkg", "a", "M.ned">> :> NedM)

\* the same with a package.ned file in /r/pkg that declares package pkg
DiskMarked == DiskBare @@ (<<"", "r", "pkg", "package.ned">> :> NedPkg)

\* the file names a caller may pass to loadNedFile
FileArgs == DOMAIN Disk \cup {<<"", "r", "p", ".", "A.ned">>}

\* an optional package name: const char *expectedPackage, possibly nullptr
Given(pkg) == [given |-> TRUE, pkg |-> pkg]

NoPackage == [given |-> FALSE, pkg |-> <<>>]

ExpectedPackages == {NoPackage, Given(<<>>), Given(<<"p">>)}

-----------------------------------------------------------------------------
(* Paths                                                                   *)

\* the working directory of the process
Cwd == <<"", "r">>

toAbsolutePath(pathname) ==
    IF pathname # <<>> /\ Head(pathname) = "" THEN pathname ELSE Cwd \o pathname

\* drops "." components and resolves ".." against the component before it
RECURSIVE tidyFilename(_, _)
tidyFilename(done, rest) ==
    IF rest = <<>> THEN done
    ELSE IF Head(rest) = "." THEN tidyFilename(done, Tail(rest))
    ELSE IF Head(rest) = ".." /\ Len(done) > 1
         THEN tidyFilename(Front(done), Tail(rest))
    ELSE tidyFilename(Append(done, Head(rest)), Tail(rest))

\* variant: the path is made absolute and left untidied
Canonicalize_absoluteOnly(pathname) == toAbsolutePath(pathname)

canonicalize(pathname) == tidyFilename(<<>>, toAbsolutePath(pathname))

\* variant: only the bare name counts
IsPackageNedFile_exactOnly(fname) == fname = <<"package.ned">>

\* fname is "package.ned" or ends in "/package.ned"
isPackageNedFile(fname) == fname # <<>> /\ Last(fname) = "package.ned"

-----------------------------------------------------------------------------
(* The file index and the nodes of its trees                               *)

EmptyMap == [k \in {} |-> k]

containsKey(map, key) == key \in DOMAIN map

\* the NedFileElement the parser builds for the file named fname
NedFileElement(fname, tree) ==
    [filename |-> fname, package |-> tree.package, imports |-> tree.imports,
     types |-> tree.types]

\* a node is named by its file and the positions that lead to it; the
\* empty path names the file element itself
Node(file, path) == [file |-> file, path |-> path]

RECURSIVE DeclAt(_, _)
DeclAt(decls, path) ==
    IF Len(path) = 1 THEN decls[Head(path)]
    ELSE DeclAt(decls[Head(path)].types, Tail(path))

NodeAt(files, node) == DeclAt(files[node.file].types, node.path)

getTagCode(files, node) ==
    IF node.path = <<>> THEN "ned-file" ELSE NodeAt(files, node).tag

addFile(files, nedFilename, node) ==
    [k \in DOMAIN files \cup {nedFilename} |->
        IF k = nedFilename THEN node ELSE files[k]]

-----------------------------------------------------------------------------
(* Collecting the types a file declares                                    *)

PendingNedType(qname, isInnerType, node) ==
    [qname |-> qname, isInnerType |-> isInnerType, node |-> node]

\* the pending entries for the children decls[i..] of the node at path, in
\* document order, each type followed by the types of its types block
RECURSIVE collectNedTypesFrom(_, _, _, _, _, _)
collectNedTypesFrom(file, decls, i, path, packagePrefix, areInnerTypes) ==
    IF i > Len(decls) THEN <<>>
    ELSE LET child == decls[i]
             qname == packagePrefix \o <<child.name>>
             here  == Append(path, i)
         IN  (IF child.tag \in TypeTags
              THEN <<PendingNedType(qname, areInnerTypes, Node(file, here))>>
                   \o collectNedTypesFrom(file, child.types, 1, here, qname, TRUE)
              ELSE <<>>)
             \o collectNedTypesFrom(file, decls, i + 1, path, packagePrefix,
                                    areInnerTypes)

\* the types of one file element
collectFile(files, file) ==
    collectNedTypesFrom(file, files[file].types, 1, <<>>, files[file].package, FALSE)

RECURSIVE collectAll(_, _)
collectAll(files, keys) ==
    IF keys = <<>> THEN <<>>
    ELSE collectFile(files, Head(keys)) \o collectAll(files, Tail(keys))

-----------------------------------------------------------------------------
(* Name resolution                                                         *)

lookup(types, qname) == IF qname \in DOMAIN types THEN <<types[qname]>> ELSE <<>>

\* variant: the listing is filled whether it is empty or not
GetTypeNames_noEmptyCheck(types, names) ==
    IF DOMAIN types # {} THEN names \o KeysInOrder(DOMAIN types) ELSE names

getTypeNames(types, names) ==
    IF names = <<>> /\ DOMAIN types # {} THEN KeysInOrder(DOMAIN types) ELSE names

containsWildcards(pattern) == \E i \in 1..Len(pattern) : pattern[i] \in {"*", "**"}

\* "*" stands for one segment, "**" for one or more
RECURSIVE matches(_, _)
matches(pattern, qname) ==
    IF pattern = <<>> THEN qname = <<>>
    ELSE IF Head(pattern) = "**"
         THEN \E k \in 1..Len(qname) :
                  matches(Tail(pattern), SubSeq(qname, k + 1, Len(qname)))
    ELSE /\ qname # <<>>
         /\ Head(pattern) = "*" \/ Head(pattern) = Head(qname)
         /\ matches(Tail(pattern), Tail(qname))

NedLookupContext(element, qname) == [element |-> element, qname |-> qname]

getParentContextOf(qname, node) ==
    NedLookupContext(Node(node.file, Front(node.path)), Front(qname))

\* variant: no context is taken for an inner type
ContextIsInnerType_never(files, element) == FALSE

\* context.element->getParent()->getParentWithTag(NED_COMPOUND_MODULE) != nullptr
contextIsInnerType(files, element) ==
    \E k \in 1..(Len(element.path) - 1) :
        getTagCode(files, Node(element.file, SubSeq(element.path, 1, k)))
            = "compound-module"

\* variant: the name is not compared
EndsWithName_any(qname, nedTypeName) == qname # <<>>

\* qname is nedTypeName or ends in "." nedTypeName, for a simple nedTypeName
endsWithName(qname, nedTypeName) == qname # <<>> /\ <<Last(qname)>> = nedTypeName

\* the first wildcard import, and the first name of the listing under it,
\* that give a match; <<>> if there is none
\* variant: a name matched by the import wins only if it is the only one
ScanNames_unambiguous(import, names, j, nedTypeName) ==
    LET hits == {k \in j..Len(names) :
                    endsWithName(names[k], nedTypeName) /\ matches(import, names[k])}
    IN  IF Cardinality(hits) # 1 THEN <<>>
        ELSE names[CHOOSE k \in hits : TRUE]

\* variant: the last name of the listing that matches wins
ScanNames_lastMatch(import, names, j, nedTypeName) ==
    LET hits == {k \in j..Len(names) :
                    endsWithName(names[k], nedTypeName) /\ matches(import, names[k])}
    IN  IF hits = {} THEN <<>>
        ELSE names[CHOOSE k \in hits : \A o \in hits : o <= k]

RECURSIVE scanNames(_, _, _, _)
scanNames(import, names, j, nedTypeName) ==
    IF j > Len(names) THEN <<>>
    ELSE IF endsWithName(names[j], nedTypeName) /\ matches(import, names[j])
         THEN names[j]
    ELSE scanNames(import, names, j + 1, nedTypeName)

RECURSIVE scanImports(_, _, _, _)
scanImports(imports, i, names, nedTypeName) ==
    IF i > Len(imports) THEN <<>>
    ELSE LET hit == IF containsWildcards(imports[i])
                    THEN scanNames(imports[i], names, 1, nedTypeName)
                    ELSE <<>>
         IN  IF hit # <<>> THEN hit
             ELSE scanImports(imports, i + 1, names, nedTypeName)

\* the result, and the cached listing as the call leaves it
Resolved(qname, names) == [qname |-> qname, names |-> names]

\* variant: the package of the file is tried before the imports
ResolveNedType_packageFirst(files, types, names, context, nedTypeName) ==
    IF Len(nedTypeName) > 1
    THEN Resolved(IF lookup(types, nedTypeName) # <<>> THEN nedTypeName ELSE <<>>,
                  names)
    ELSE
    LET nedfileNode == files[context.element.file]
        imports     == nedfileNode.imports
        innerName   ==
            (IF contextIsInnerType(files, context.element)
             THEN Front(context.qname) ELSE context.qname) \o nedTypeName
        exact       ==
            {i \in 1..Len(imports) :
                /\ lookup(types, imports[i]) # <<>>
                /\ endsWithName(imports[i], nedTypeName)}
        samePackage == nedfileNode.package \o nedTypeName
        listing     ==
            IF \E i \in 1..Len(imports) : containsWildcards(imports[i])
            THEN getTypeNames(types, names) ELSE names
    IN  IF /\ getTagCode(files, context.element) = "compound-module"
           /\ lookup(types, innerName) # <<>>
        THEN Resolved(innerName, names)
        ELSE IF lookup(types, samePackage) # <<>>
        THEN Resolved(samePackage, names)
        ELSE IF exact # {}
        THEN Resolved(imports[CHOOSE i \in exact : \A o \in exact : i <= o], names)
        ELSE Resolved(scanImports(imports, 1, listing, nedTypeName), listing)

\* variant: a name that is not registered as it stands is looked up in the
\* package of the file, dotted or not
ResolveNedType_packageRelative(files, types, names, context, nedTypeName) ==
    LET relative == files[context.element.file].package \o nedTypeName
    IN  Resolved(IF lookup(types, nedTypeName) # <<>> THEN nedTypeName
                 ELSE IF lookup(types, relative) # <<>> THEN relative
                 ELSE <<>>,
                 names)

resolveNedType(files, types, names, context, nedTypeName) ==
    IF Len(nedTypeName) > 1
    THEN Resolved(IF lookup(types, nedTypeName) # <<>> THEN nedTypeName ELSE <<>>,
                  names)
    ELSE
    LET nedfileNode == files[context.element.file]
        imports     == nedfileNode.imports
        innerName   ==
            (IF contextIsInnerType(files, context.element)
             THEN Front(context.qname) ELSE context.qname) \o nedTypeName
        exact       ==
            {i \in 1..Len(imports) :
                /\ lookup(types, imports[i]) # <<>>
                /\ endsWithName(imports[i], nedTypeName)}
        samePackage == nedfileNode.package \o nedTypeName
        listing     ==
            IF \E i \in 1..Len(imports) : containsWildcards(imports[i])
            THEN getTypeNames(types, names) ELSE names
    IN  IF /\ getTagCode(files, context.element) = "compound-module"
           /\ lookup(types, innerName) # <<>>
        THEN Resolved(innerName, names)
        ELSE IF exact # {}
        THEN Resolved(imports[CHOOSE i \in exact : \A o \in exact : i <= o], names)
        ELSE IF lookup(types, samePackage) # <<>>
        THEN Resolved(samePackage, names)
        ELSE Resolved(scanImports(imports, 1, listing, nedTypeName), listing)

\* whether every extends and interface-name child resolves, and the cached
\* listing as the checks leave it
RECURSIVE dependenciesFrom(_, _, _, _, _, _)
dependenciesFrom(files, types, names, context, children, i) ==
    IF i > Len(children) THEN [resolved |-> TRUE, names |-> names]
    ELSE IF children[i].tag \notin {"extends", "interface-name"}
         THEN dependenciesFrom(files, types, names, context, children, i + 1)
    ELSE LET r == resolveNedType(files, types, names, context, children[i].name)
         IN  IF r.qname = <<>> THEN [resolved |-> FALSE, names |-> r.names]
             ELSE dependenciesFrom(files, types, r.names, context, children, i + 1)

\* variant: no reference is looked at
AreDependenciesResolved_unchecked(files, types, names, qname, node) ==
    [resolved |-> TRUE, names |-> names]

areDependenciesResolved(files, types, names, qname, node) ==
    dependenciesFrom(files, types, names, getParentContextOf(qname, node),
                     NodeAt(files, node).children, 1)

-----------------------------------------------------------------------------
(* Registration                                                            *)

NedTypeInfo(qname, isInnerType, node) ==
    [qname |-> qname, isInnerType |-> isInnerType, node |-> node]

\* nedTypes[qname] = decl; the entry also records, as seq, how many entries
\* the type index held before it
registerNedType(types, qname, isInnerType, node) ==
    [k \in DOMAIN types \cup {qname} |->
        IF k = qname
        THEN NedTypeInfo(qname, isInnerType, node)
                 @@ [seq |-> Cardinality(DOMAIN types)]
        ELSE types[k]]

\* what a run of the registration loop leaves behind, and the exception it
\* ends with ("" if none)
Registered(types, names, pending, error, errorNames, passes) ==
    [nedTypes |-> types, nedTypeNames |-> names, pendingList |-> pending,
     error |-> error, errorNames |-> errorNames, passes |-> passes]

\* variant: only the first pending name is reported
QnamesOf_firstOnly(pending) ==
    IF pending = <<>> THEN <<>> ELSE <<Head(pending).qname>>

RECURSIVE qnamesOf(_)
qnamesOf(pending) ==
    IF pending = <<>> THEN <<>>
    ELSE <<Head(pending).qname>> \o qnamesOf(Tail(pending))

\* the number of entries the current pass has erased is one more
erased(passes) ==
    [passes EXCEPT ![Len(passes)] = passes[Len(passes)] + 1]

\* the while (again) loop, at entry i of the current pass; passes holds, for
\* every pass begun, the number of entries it has erased
RECURSIVE registerLoop(_, _, _, _, _, _, _)
registerLoop(files, types, names, pending, i, again, passes) ==
    IF i > Len(pending)
    THEN IF again
         THEN registerLoop(files, types, names, pending, 1, FALSE,
                           Append(passes, 0))
         ELSE IF pending # <<>>
         THEN Registered(types, names, pending, "unresolved", qnamesOf(pending),
                         passes)
         ELSE Registered(types, names, pending, "", <<>>, passes)
    ELSE LET type == pending[i]
             deps == areDependenciesResolved(files, types, names, type.qname,
                                             type.node)
         IN  IF ~deps.resolved
             THEN registerLoop(files, types, deps.names, pending, i + 1, again,
                               passes)
             ELSE IF lookup(types, type.qname) # <<>>
             THEN Registered(types, deps.names, pending, "redeclaration",
                             <<type.qname>>, passes)
             ELSE registerLoop(files,
                               registerNedType(types, type.qname,
                                               type.isInnerType, type.node),
                               <<>>, RemoveAt(pending, i), i, TRUE,
                               erased(passes))

\* variant: a single pass over the pending list
RECURSIVE RegisterOnePass(_, _, _, _, _)
RegisterOnePass(files, types, names, pending, i) ==
    IF i > Len(pending)
    THEN IF pending # <<>>
         THEN Registered(types, names, pending, "unresolved", qnamesOf(pending),
                         <<0>>)
         ELSE Registered(types, names, pending, "", <<>>, <<0>>)
    ELSE LET type == pending[i]
             deps == areDependenciesResolved(files, types, names, type.qname,
                                             type.node)
         IN  IF ~deps.resolved
             THEN RegisterOnePass(files, types, deps.names, pending, i + 1)
             ELSE IF lookup(types, type.qname) # <<>>
             THEN Registered(types, deps.names, pending, "redeclaration",
                             <<type.qname>>, <<0>>)
             ELSE RegisterOnePass(files,
                                  registerNedType(types, type.qname,
                                                  type.isInnerType, type.node),
                                  <<>>, RemoveAt(pending, i), i)

RegisterPendingNedTypes_onePass(files, types, names, pending) ==
    RegisterOnePass(files, types, names, pending, 1)

\* variant: the pending list is emptied once its names have been reported
RegisterPendingNedTypes_dropsUnresolved(files, types, names, pending) ==
    LET reg == registerLoop(files, types, names, pending, 1, FALSE, <<0>>)
    IN  IF reg.error = "unresolved" THEN [reg EXCEPT !.pendingList = <<>>]
        ELSE reg

\* variant: the first pass counts as progress whatever it erased
RegisterPendingNedTypes_extraPass(files, types, names, pending) ==
    registerLoop(files, types, names, pending, 1, TRUE, <<0>>)

\* bool again = true; while (again) { again = false; ... }: the first pass
\* is entered with again = false
registerPendingNedTypes(files, types, names, pending) ==
    registerLoop(files, types, names, pending, 1, FALSE, <<0>>)

-----------------------------------------------------------------------------
(* Operations                                                              *)

\* the call just made: the operation, the key it computed for its file, the
\* expected package it was given and the package its source declares
Call(op, key, expected, declared) ==
    [op |-> op, key |-> key, expected |-> expected, declared |-> declared]

\* the run of the registration loop a call has made: the length of the
\* pending list it started with and the number of entries each pass erased
Passes(pending, reg) == [pending |-> Len(pending), erased |-> reg.passes]

\* what a call that does not run the registration loop leaves as its run
NoPasses == [pending |-> 0, erased |-> <<>>]

\* what a call that returns no value leaves as the value returned
NoResult == [context |-> <<>>, name |-> <<>>, value |-> <<>>]

\* the call is one that returns no value and touches neither the folder
\* map nor the file system
Plain == lastResult' = NoResult /\ UNCHANGED <<folderPackages, disk>>

Init ==
    /\ nedFiles = EmptyMap
    /\ packageDotNedFiles = EmptyMap
    /\ nedTypes = EmptyMap
    /\ nedTypeNames = <<>>
    /\ pendingList = <<>>
    /\ doneLoadingNedFilesCalled = FALSE
    /\ folderPackages = EmptyMap
    /\ disk = Disk
    /\ lastCall = Call("", <<>>, NoPackage, <<>>)
    /\ lastResult = NoResult
    /\ lastPasses = NoPasses
    /\ lastError = ""
    /\ lastErrorNames = <<>>

\* the call ends with exception error and the cache as it was
Throw(error) ==
    /\ lastError' = error
    /\ lastErrorNames' = <<>>
    /\ lastPasses' = NoPasses
    /\ UNCHANGED <<nedFiles, packageDotNedFiles, nedTypes, nedTypeNames,
                   pendingList, doneLoadingNedFilesCalled>>

\* the call returns and the cache is as it was
Return ==
    /\ lastError' = ""
    /\ lastErrorNames' = <<>>
    /\ lastPasses' = NoPasses
    /\ UNCHANGED <<nedFiles, packageDotNedFiles, nedTypes, nedTypeNames,
                   pendingList, doneLoadingNedFilesCalled>>

\* the tree the parser and the validators return for a file or a text;
\* nedText is <<>> for nullptr and <<tree>> for a text that parses to tree;
\* the file system finds a file under any name that leads to it
parseAndValidateNedFileOrText(fname, nedText) ==
    LET path == tidyFilename(<<>>, toAbsolutePath(fname))
    IN  IF nedText # <<>> THEN Head(nedText)
        ELSE IF path \in DOMAIN disk THEN disk[path]
        ELSE NedBad

\* variant: an empty expected package is taken for none
PackageMismatch_emptyAllowed(expectedPackage, declaredPackage) ==
    expectedPackage.pkg # <<>> /\ declaredPackage # expectedPackage.pkg

\* expectedPackage != nullptr && declaredPackage != expectedPackage
packageMismatch(expectedPackage, declaredPackage) ==
    expectedPackage.given /\ declaredPackage # expectedPackage.pkg

\* doLoadNedFileOrText for a file that is not in the file index yet
loadNewFile(canonicalFilename, nedText, expectedPackage, isXML) ==
    LET tree == parseAndValidateNedFileOrText(canonicalFilename, nedText)
        declaredPackage == tree.package
        files == addFile(nedFiles, canonicalFilename,
                         NedFileElement(canonicalFilename, tree))
        reg == registerPendingNedTypes(
                   files, nedTypes, nedTypeNames,
                   pendingList \o collectFile(files, canonicalFilename))
    IN  IF doneLoadingNedFilesCalled /\ isPackageNedFile(canonicalFilename)
        THEN Throw("late package.ned")
        ELSE IF isXML /\ nedText # <<>>
        THEN Throw("XML from string")
        ELSE IF ~tree.valid
        THEN Throw("parse")
        ELSE IF packageMismatch(expectedPackage, declaredPackage)
        THEN Throw("package mismatch")
        ELSE /\ Cardinality(DOMAIN files) <= MaxFiles
             /\ nedFiles' = files
             /\ UNCHANGED <<packageDotNedFiles, doneLoadingNedFilesCalled>>
             /\ IF doneLoadingNedFilesCalled
                THEN /\ nedTypes' = reg.nedTypes
                     /\ nedTypeNames' = reg.nedTypeNames
                     /\ pendingList' = reg.pendingList
                     /\ lastError' = reg.error
                     /\ lastErrorNames' = reg.errorNames
                     /\ lastPasses' =
                            Passes(pendingList \o collectFile(files, canonicalFilename), reg)
                ELSE /\ lastError' = ""
                     /\ lastErrorNames' = <<>>
                     /\ lastPasses' = NoPasses
                     /\ UNCHANGED <<nedTypes, nedTypeNames, pendingList>>

\* variant: the file index is not consulted first
DoLoadNedFileOrText_noLoadedCheck(nedFilename, nedText, expectedPackage, isXML) ==
    loadNewFile(IF nedText # <<>> THEN nedFilename ELSE canonicalize(nedFilename),
                nedText, expectedPackage, isXML)

doLoadNedFileOrText(nedFilename, nedText, expectedPackage, isXML) ==
    LET canonicalFilename ==
            IF nedText # <<>> THEN nedFilename ELSE canonicalize(nedFilename)
    IN  IF containsKey(nedFiles, canonicalFilename)
        THEN Return
        ELSE loadNewFile(canonicalFilename, nedText, expectedPackage, isXML)

loadNedFile(nedFilename, expectedPackage, isXML) ==
    /\ lastCall' = Call("loadNedFile", canonicalize(nedFilename), expectedPackage,
                        parseAndValidateNedFileOrText(canonicalize(nedFilename),
                                                      <<>>).package)
    /\ Plain
    /\ doLoadNedFileOrText(nedFilename, <<>>, expectedPackage, isXML)

loadNedText(name, nedText, expectedPackage, isXML) ==
    /\ lastCall' = Call("loadNedText", name, expectedPackage, nedText.package)
    /\ Plain
    /\ doLoadNedFileOrText(name, <<nedText>>, expectedPackage, isXML)

\* what the first loop of doneLoadingNedFiles leaves behind
Markers(index, error, errorNames) ==
    [index |-> index, error |-> error, errorNames |-> errorNames]

\* variant: a second package.ned file of a package replaces the first
RECURSIVE CollectPackageNedFiles_overwrite(_, _, _, _)
CollectPackageNedFiles_overwrite(files, keys, i, index) ==
    IF i > Len(keys) THEN Markers(index, "", <<>>)
    ELSE IF ~isPackageNedFile(files[keys[i]].filename)
         THEN CollectPackageNedFiles_overwrite(files, keys, i + 1, index)
    ELSE CollectPackageNedFiles_overwrite(
             files, keys, i + 1,
             addFile(index, files[keys[i]].package, files[keys[i]]))

\* the package.ned files among keys[i..] entered into index, up to the
\* first one whose package has an entry already
RECURSIVE collectPackageNedFiles(_, _, _, _)
collectPackageNedFiles(files, keys, i, index) ==
    IF i > Len(keys) THEN Markers(index, "", <<>>)
    ELSE LET nedFile == files[keys[i]]
             packageName == nedFile.package
         IN  IF ~isPackageNedFile(nedFile.filename)
             THEN collectPackageNedFiles(files, keys, i + 1, index)
             ELSE IF containsKey(index, packageName)
             THEN Markers(index, "duplicate package.ned", <<packageName>>)
             ELSE collectPackageNedFiles(files, keys, i + 1,
                                         addFile(index, packageName, nedFile))

\* doneLoadingNedFiles past its check of doneLoadingNedFilesCalled
collectAndRegister ==
    LET keys == KeysInOrder(DOMAIN nedFiles)
        markers == collectPackageNedFiles(nedFiles, keys, 1, packageDotNedFiles)
        reg == registerPendingNedTypes(nedFiles, nedTypes, nedTypeNames,
                                        pendingList \o collectAll(nedFiles, keys))
    IN  /\ doneLoadingNedFilesCalled' = TRUE
        /\ packageDotNedFiles' = markers.index
        /\ UNCHANGED nedFiles
        /\ IF markers.error # ""
           THEN /\ lastError' = markers.error
                /\ lastErrorNames' = markers.errorNames
                /\ lastPasses' = NoPasses
                /\ UNCHANGED <<nedTypes, nedTypeNames, pendingList>>
           ELSE /\ nedTypes' = reg.nedTypes
                /\ nedTypeNames' = reg.nedTypeNames
                /\ pendingList' = reg.pendingList
                /\ lastError' = reg.error
                /\ lastErrorNames' = reg.errorNames
                /\ lastPasses' =
                       Passes(pendingList \o collectAll(nedFiles, keys), reg)

\* variant: doneLoadingNedFilesCalled is not consulted
DoneLoadingNedFiles_noCalledCheck ==
    /\ lastCall' = Call("doneLoadingNedFiles", <<>>, NoPackage, <<>>)
    /\ Plain
    /\ collectAndRegister

doneLoadingNedFiles ==
    /\ lastCall' = Call("doneLoadingNedFiles", <<>>, NoPackage, <<>>)
    /\ Plain
    /\ IF doneLoadingNedFilesCalled
       THEN Throw("called twice")
       ELSE collectAndRegister

LoadNedFile ==
    \E nedFilename \in FileArgs, expectedPackage \in ExpectedPackages :
        loadNedFile(nedFilename, expectedPackage, FALSE)

LoadNedText ==
    \E name \in TextNames, nedText \in Texts,
       expectedPackage \in ExpectedPackages, isXML \in BOOLEAN :
        loadNedText(name, nedText, expectedPackage, isXML)

DoneLoadingNedFiles == doneLoadingNedFiles

Next == LoadNedFile \/ LoadNedText \/ DoneLoadingNedFiles

Spec == Init /\ [][Next]_vars

-----------------------------------------------------------------------------
(* Queries                                                                 *)

\* the types the files of the file index declare, in the order a pass over
\* the file index collects them
Declared(files) == collectAll(files, KeysInOrder(DOMAIN files))

\* the value a query returns, with the arguments it was asked with
Result(context, name, value) ==
    [context |-> context, name |-> name, value |-> value]

\* getTypeNames() as a call of its own: the listing is filled if it is
\* empty, and returned
getTypeNamesCall ==
    /\ lastCall' = Call("getTypeNames", <<>>, NoPackage, <<>>)
    /\ nedTypeNames' = getTypeNames(nedTypes, nedTypeNames)
    /\ lastResult' = Result(<<>>, <<>>, getTypeNames(nedTypes, nedTypeNames))
    /\ lastError' = ""
    /\ lastErrorNames' = <<>>
    /\ lastPasses' = NoPasses
    /\ UNCHANGED <<nedFiles, packageDotNedFiles, nedTypes, pendingList,
                   doneLoadingNedFilesCalled, folderPackages, disk>>

\* resolveNedType(context, nedTypeName) as a call of its own
resolveNedTypeCall(context, nedTypeName) ==
    LET r == resolveNedType(nedFiles, nedTypes, nedTypeNames, context, nedTypeName)
    IN  /\ lastCall' = Call("resolveNedType", <<>>, NoPackage, <<>>)
        /\ nedTypeNames' = r.names
        /\ lastResult' = Result(context, nedTypeName, r.qname)
        /\ lastError' = ""
        /\ lastErrorNames' = <<>>
        /\ lastPasses' = NoPasses
        /\ UNCHANGED <<nedFiles, packageDotNedFiles, nedTypes, pendingList,
                       doneLoadingNedFilesCalled, folderPackages, disk>>

\* the texts a caller loads before it asks, each under a name of its own
QueryTexts ==
    (<<"t1">> :> NedB) @@ (<<"t2">> :> NedRB) @@ (<<"t3">> :> NedQB) @@
    (<<"t4">> :> NedQ) @@ (<<"t5">> :> NedZ) @@ (<<"t6">> :> NedOuter)

\* the lookup contexts of the loaded files: of every declared type, the one
\* its own references are resolved in and the one its body gives
Contexts(files) ==
    UNION {{getParentContextOf(e.qname, e.node), NedLookupContext(e.node, e.qname)} :
               e \in {Declared(files)[i] : i \in 1..Len(Declared(files))}}

\* the references a caller asks about
Names ==
    {<<"B">>, <<"Inner">>, <<"p", "B">>, <<"Outer", "Inner">>,
     <<"p", "Outer", "Inner">>}

LoadQueryText ==
    \E name \in DOMAIN QueryTexts :
        loadNedText(name, QueryTexts[name], NoPackage, FALSE)

GetTypeNames == getTypeNamesCall

ResolveNedType ==
    \E context \in Contexts(nedFiles), nedTypeName \in Names :
        resolveNedTypeCall(context, nedTypeName)

QueryNext ==
    LoadQueryText \/ DoneLoadingNedFiles \/ GetTypeNames \/ ResolveNedType

QuerySpec == Init /\ [][QueryNext]_vars

-----------------------------------------------------------------------------
(* Source folders                                                          *)

\* s starts with the parts of prefix
StartsWith(s, prefix) ==
    Len(s) >= Len(prefix) /\ SubSeq(s, 1, Len(prefix)) = prefix

isDirectory(path) ==
    \E f \in DOMAIN disk : Len(f) > Len(path) /\ StartsWith(f, path)

fileExists(path) == path \in DOMAIN disk \/ isDirectory(path)

\* the names FileGlobber("*") returns in directory dir, in order
FileGlobber(dir) ==
    LET names == {<<f[Len(dir) + 1]>> :
                     f \in {g \in DOMAIN disk :
                               Len(g) > Len(dir) /\ StartsWith(g, dir)}}
        sorted == KeysInOrder(names)
    IN  [i \in 1..Len(sorted) |-> sorted[i][1]]

\* filename[0] == '.'
isDotName(filename) == filename \in {".", ".."}

\* opp_stringendswith(filename, ".ned")
endsWithNed(filename) == filename \in {"A.ned", "B.ned", "M.ned", "package.ned"}

\* opp_join(".", a, b): no separator next to an empty string
opp_join(a, b) == IF a = <<>> THEN b ELSE IF b = <<>> THEN a ELSE a \o b

\* the cache while a folder is being loaded: its containers, the exception
\* raised so far ("" if none) with the names it carries, and the count
Loading(files, types, names, pending, error, errorNames, count) ==
    [nedFiles |-> files, nedTypes |-> types, nedTypeNames |-> names,
     pendingList |-> pending, error |-> error, errorNames |-> errorNames,
     count |-> count]

Failed(st, error, errorNames) ==
    [st EXCEPT !.error = error, !.errorNames = errorNames]

\* count++, which an exception skips
counted(st) == IF st.error # "" THEN st ELSE [st EXCEPT !.count = @ + 1]

\* doLoadNedFileOrText(filename, nullptr, expectedPackage, false) for the file
\* filename of directory dir, the working directory at that point
loadFolderFile(st, dir, filename, expectedPackage) ==
    LET canonicalFilename == tidyFilename(<<>>, dir \o <<filename>>)
        tree == parseAndValidateNedFileOrText(canonicalFilename, <<>>)
        declaredPackage == tree.package
        files == addFile(st.nedFiles, canonicalFilename,
                         NedFileElement(canonicalFilename, tree))
        reg == registerPendingNedTypes(
                   files, st.nedTypes, st.nedTypeNames,
                   st.pendingList \o collectFile(files, canonicalFilename))
    IN  IF containsKey(st.nedFiles, canonicalFilename)
        THEN st
        ELSE IF doneLoadingNedFilesCalled /\ isPackageNedFile(canonicalFilename)
        THEN Failed(st, "late package.ned", <<>>)
        ELSE IF ~tree.valid
        THEN Failed(st, "parse", <<>>)
        ELSE IF packageMismatch(Given(expectedPackage), declaredPackage)
        THEN Failed(st, "package mismatch", <<declaredPackage, expectedPackage>>)
        ELSE IF doneLoadingNedFilesCalled
        THEN Loading(files, reg.nedTypes, reg.nedTypeNames, reg.pendingList,
                     reg.error, reg.errorNames, st.count)
        ELSE [st EXCEPT !.nedFiles = files]

\* the walk of directory dir from its entry names[i] on: every .ned file is
\* loaded with the expected package of its directory, every subfolder is
\* walked with that package joined with its name; an exception ends the walk
RECURSIVE doLoadNedSourceFolder(_, _, _, _)
RECURSIVE globLoop(_, _, _, _, _, _)
globLoop(st, dir, names, i, expectedPackage, excludedPackages) ==
    IF st.error # "" \/ i > Len(names) THEN st
    ELSE LET filename == names[i]
         IN  IF isDotName(filename)
             THEN globLoop(st, dir, names, i + 1, expectedPackage,
                           excludedPackages)
             ELSE IF isDirectory(dir \o <<filename>>)
             THEN globLoop(doLoadNedSourceFolder(
                               st, dir \o <<filename>>,
                               opp_join(expectedPackage, <<filename>>),
                               excludedPackages),
                           dir, names, i + 1, expectedPackage, excludedPackages)
             ELSE IF endsWithNed(filename)
             THEN globLoop(counted(loadFolderFile(st, dir, filename,
                                                  expectedPackage)),
                           dir, names, i + 1, expectedPackage, excludedPackages)
             ELSE globLoop(st, dir, names, i + 1, expectedPackage,
                           excludedPackages)

doLoadNedSourceFolder(st, dir, expectedPackage, excludedPackages) ==
    IF expectedPackage # <<>> /\ expectedPackage \in excludedPackages
    THEN st
    ELSE globLoop(st, dir, FileGlobber(dir), 1, expectedPackage,
                  excludedPackages)

\* variant: the package.ned of the folder is not looked at
DetermineRootPackageName_empty(nedSourceFolderName) == <<>>

\* the package the package.ned file of the folder declares, "" without one
determineRootPackageName(nedSourceFolderName) ==
    LET packageNedFilename == canonicalize(nedSourceFolderName \o <<"package.ned">>)
    IN  IF ~fileExists(packageNedFilename) THEN <<>>
        ELSE parseAndValidateNedFileOrText(packageNedFilename, <<>>).package

\* folderPackages[canonicalFolderName] = rootPackageName
putFolder(folders, canonicalFolderName, rootPackageName) ==
    [k \in DOMAIN folders \cup {canonicalFolderName} |->
        IF k = canonicalFolderName THEN rootPackageName ELSE folders[k]]

loadNedSourceFolder(folderName, excludedPackages) ==
    LET canonicalFolderName == canonicalize(folderName)
        rootPackageName == determineRootPackageName(folderName)
        loaded == doLoadNedSourceFolder(
                      Loading(nedFiles, nedTypes, nedTypeNames, pendingList, "",
                              <<>>, 0),
                      canonicalFolderName, rootPackageName, excludedPackages)
    IN  \E st \in {loaded} :
        /\ lastCall' = Call("loadNedSourceFolder", canonicalFolderName,
                            Given(rootPackageName), <<>>)
                            @@ [excluded |-> excludedPackages]
        /\ folderPackages' = putFolder(folderPackages, canonicalFolderName,
                                       rootPackageName)
        /\ nedFiles' = st.nedFiles
        /\ nedTypes' = st.nedTypes
        /\ nedTypeNames' = st.nedTypeNames
        /\ pendingList' = st.pendingList
        /\ lastError' = st.error
        /\ lastErrorNames' = st.errorNames
        \* the runs of the loop within the walk are not recorded
        /\ lastPasses' = NoPasses
        /\ lastResult' = IF st.error = "" THEN Result(<<>>, folderName, st.count)
                         ELSE NoResult
        /\ UNCHANGED <<packageDotNedFiles, doneLoadingNedFilesCalled, disk>>

\* strlen-based prefix test of two canonical absolute paths
isPathPrefixOf(prefix, path) ==
    IF Len(path) = Len(prefix) THEN path = prefix
    ELSE IF Len(path) < Len(prefix) THEN FALSE
    ELSE StartsWith(path, prefix)

\* the first folder of folderPackages, in key order, that is a prefix
getNedSourceFolderForFolder(folders, folder) ==
    LET folderName == canonicalize(folder)
        keys == KeysInOrder(DOMAIN folders)
        hits == {i \in 1..Len(keys) : isPathPrefixOf(keys[i], folderName)}
    IN  IF hits = {} THEN <<>>
        ELSE keys[CHOOSE i \in hits : \A o \in hits : i <= o]

\* a package is returned as its segments, a folder as its components: the
\* components after the source folder are the segments of the subpackage
getNedPackageForFolder(folders, folder) ==
    LET sourceFolder == getNedSourceFolderForFolder(folders, folder)
        folderName == canonicalize(folder)
        subpackage == SubSeq(folderName, Len(sourceFolder) + 1, Len(folderName))
    IN  IF sourceFolder = <<>> THEN <<>>
        ELSE opp_join(folders[sourceFolder], subpackage)

\* getNedSourceFolderForFolder(folder) as a call of its own
getNedSourceFolderForFolderCall(folder) ==
    /\ lastCall' = Call("getNedSourceFolderForFolder", <<>>, NoPackage, <<>>)
    /\ lastResult' = Result(<<>>, folder,
                            getNedSourceFolderForFolder(folderPackages, folder))
    /\ lastError' = ""
    /\ lastErrorNames' = <<>>
    /\ lastPasses' = NoPasses
    /\ UNCHANGED <<nedFiles, packageDotNedFiles, nedTypes, nedTypeNames,
                   pendingList, doneLoadingNedFilesCalled, folderPackages, disk>>

\* getNedPackageForFolder(folder) as a call of its own
getNedPackageForFolderCall(folder) ==
    /\ lastCall' = Call("getNedPackageForFolder", <<>>, NoPackage, <<>>)
    /\ lastResult' = Result(<<>>, folder,
                            getNedPackageForFolder(folderPackages, folder))
    /\ lastError' = ""
    /\ lastErrorNames' = <<>>
    /\ lastPasses' = NoPasses
    /\ UNCHANGED <<nedFiles, packageDotNedFiles, nedTypes, nedTypeNames,
                   pendingList, doneLoadingNedFilesCalled, folderPackages, disk>>

\* the key registerBuiltinDeclarations files the built-in declarations under
BuiltinKey == <<"", "[built-in-declarations]", "package.ned">>

registerBuiltinDeclarations ==
    /\ lastCall' = Call("registerBuiltinDeclarations", BuiltinKey, NoPackage,
                        NedBuiltin.package)
    /\ Plain
    /\ nedFiles' = addFile(nedFiles, BuiltinKey,
                            NedFileElement(<<"built-in-declarations">>, NedBuiltin))
    /\ lastError' = ""
    /\ lastErrorNames' = <<>>
    /\ lastPasses' = NoPasses
    /\ UNCHANGED <<packageDotNedFiles, nedTypes, nedTypeNames, pendingList,
                   doneLoadingNedFilesCalled>>

\* the folders a caller may name
FolderArgs == {<<"", "r">>, <<"p">>, <<"", "r", "pkg">>}

\* the excluded packages a caller may give
ExcludedPackages == {{}, {<<"pkg">>}}

\* the folders a caller may ask about
FolderQueries == {<<"", "r">>, <<"", "r", "p">>, <<"", "r", "pkg">>}

InitFolders ==
    /\ nedFiles = EmptyMap
    /\ packageDotNedFiles = EmptyMap
    /\ nedTypes = EmptyMap
    /\ nedTypeNames = <<>>
    /\ pendingList = <<>>
    /\ doneLoadingNedFilesCalled = FALSE
    /\ folderPackages = EmptyMap
    /\ disk \in {DiskBare, DiskMarked}
    /\ lastCall = Call("", <<>>, NoPackage, <<>>)
    /\ lastError = ""
    /\ lastErrorNames = <<>>
    /\ lastResult = NoResult
    /\ lastPasses = NoPasses

RegisterBuiltinDeclarations == registerBuiltinDeclarations

LoadNedSourceFolder ==
    \E folderName \in FolderArgs, excludedPackages \in ExcludedPackages :
        loadNedSourceFolder(folderName, excludedPackages)

LoadFolderFile ==
    loadNedFile(<<"", "r", "p", ".", "A.ned">>, NoPackage, FALSE)

LoadFolderText == loadNedText(<<"t1">>, NedB, NoPackage, FALSE)

GetNedSourceFolderForFolder ==
    \E folder \in FolderQueries : getNedSourceFolderForFolderCall(folder)

GetNedPackageForFolder ==
    \E folder \in FolderQueries : getNedPackageForFolderCall(folder)

FolderNext ==
    \/ RegisterBuiltinDeclarations
    \/ LoadNedSourceFolder
    \/ LoadFolderFile
    \/ LoadFolderText
    \/ DoneLoadingNedFiles
    \/ GetNedSourceFolderForFolder
    \/ GetNedPackageForFolder

FolderSpec == InitFolders /\ [][FolderNext]_vars

-----------------------------------------------------------------------------
(* Vocabulary of the properties                                            *)

Loads == {"loadNedFile", "loadNedText"}

EntriesOf(pending) == {pending[i] : i \in 1..Len(pending)}

\* entry e is the declaration the type index holds under e's name
IsRegistered(types, e) == e.qname \in DOMAIN types /\ types[e.qname].node = e.node

\* a package.ned file of the file index, told by its key
IsMarkerKey(key) == key # <<>> /\ key[Len(key)] = "package.ned"

MarkerKeys(files) == {k \in DOMAIN files : IsMarkerKey(k)}

UniqueMarkers(files) ==
    \A k1, k2 \in MarkerKeys(files) :
        files[k1].package = files[k2].package => k1 = k2

\* the type index that holds every declared type
AllTypes(files) == [q \in {e.qname : e \in EntriesOf(Declared(files))} |-> TRUE]

\* the names the extends and interface-name children of e refer to
RefsOf(files, e) ==
    LET children == NodeAt(files, e.node).children
    IN  {children[i].name : i \in {j \in 1..Len(children) :
            children[j].tag \in {"extends", "interface-name"}}}

\* what reference name of e resolves to when types are the registered ones
TargetIn(files, types, e, name) ==
    resolveNedType(files, types, KeysInOrder(DOMAIN types),
                   getParentContextOf(e.qname, e.node), name).qname

\* the pairs (type, type it depends on) when every declared type is known
DependsOn(files) ==
    UNION {{<<e.qname, TargetIn(files, AllTypes(files), e, name)>> :
                name \in RefsOf(files, e)} : e \in EntriesOf(Declared(files))}

RECURSIVE TransitiveClosure(_, _)
TransitiveClosure(R, n) ==
    IF n = 0 THEN R
    ELSE TransitiveClosure(
             R \cup UNION {{<<x[1], y[2]>> : y \in {z \in R : z[1] = x[2]}} :
                            x \in R},
             n - 1)

\* distinct names, every reference resolvable in the loaded set, no cycle
WellFormed(files) ==
    LET decl == Declared(files)
    IN  /\ \A i, j \in 1..Len(decl) : decl[i].qname = decl[j].qname => i = j
        /\ \A d \in DependsOn(files) : d[2] # <<>>
        /\ \A d \in TransitiveClosure(DependsOn(files), Len(decl)) : d[1] # d[2]

AllRegistered(files, types) ==
    \A e \in EntriesOf(Declared(files)) : IsRegistered(types, e)

\* this step is a call that ran the registration loop
RanRegistration ==
    \/ /\ lastCall'.op = "doneLoadingNedFiles"
       /\ ~doneLoadingNedFilesCalled
       /\ lastError' # "duplicate package.ned"
    \/ /\ lastCall'.op \in Loads
       /\ doneLoadingNedFilesCalled
       /\ nedFiles' # nedFiles

-----------------------------------------------------------------------------
(* Properties                                                              *)

\* C1: whenever doneLoadingNedFiles returns normally, or a load of a file
\* that was not loaded yet returns normally after doneLoadingNedFiles has
\* been called, the pending list is empty and every type declared in a file
\* of the file index is in the type index under its qualified name.
C1_FinalizeTotality ==
    [][(/\ lastError' = ""
        /\ \/ lastCall'.op = "doneLoadingNedFiles"
           \/ /\ lastCall'.op \in Loads
              /\ doneLoadingNedFilesCalled
              /\ lastCall'.key \notin DOMAIN nedFiles)
       => /\ pendingList' = <<>>
          /\ \A e \in EntriesOf(Declared(nedFiles')) :
                 e.qname \in DOMAIN nedTypes']_vars

\* C2, as claimed: when the loaded files declare pairwise distinct names,
\* every reference resolves within them and no type depends on itself, the
\* first doneLoadingNedFiles returns normally with every type registered.
C2_Original ==
    (/\ lastCall.op = "doneLoadingNedFiles"
     /\ lastError # "called twice"
     /\ WellFormed(nedFiles))
    => /\ lastError = ""
       /\ pendingList = <<>>
       /\ AllRegistered(nedFiles, nedTypes)

\* C2, amended: the same, for loaded files of which no two are package.ned
\* files of one package.
C2_ForwardReferences ==
    (/\ lastCall.op = "doneLoadingNedFiles"
     /\ lastError # "called twice"
     /\ WellFormed(nedFiles)
     /\ UniqueMarkers(nedFiles))
    => /\ lastError = ""
       /\ pendingList = <<>>
       /\ AllRegistered(nedFiles, nedTypes)

\* doneLoadingNedFiles has registered a type that was collected before the
\* type it extends
C2_Witness ==
    /\ lastCall.op = "doneLoadingNedFiles"
    /\ lastError = ""
    /\ WellFormed(nedFiles)
    /\ UniqueMarkers(nedFiles)
    /\ LET decl == Declared(nedFiles)
       IN  \E i, j \in 1..Len(decl) :
               /\ i < j
               /\ <<decl[i].qname, decl[j].qname>> \in DependsOn(nedFiles)
               /\ IsRegistered(nedTypes, decl[i])

\* C3: when the registration loop has run to its end and a pending type is
\* left with a reference that resolves to no registered type, the call fails
\* with the unresolved-dependency error, which names the pending list's
\* names in order; every entry named is unresolved and none is registered,
\* and after doneLoadingNedFiles every declared type is registered or named.
C3_UnresolvedNames ==
    [][(RanRegistration /\ lastError' # "redeclaration")
       => LET Unresolved(e) ==
                  ~areDependenciesResolved(nedFiles', nedTypes', nedTypeNames',
                                           e.qname, e.node).resolved
              left == EntriesOf(pendingList')
          IN  /\ (\E e \in left : Unresolved(e))
                 => /\ lastError' = "unresolved"
                    /\ lastErrorNames' =
                           [i \in 1..Len(pendingList') |-> pendingList'[i].qname]
                    /\ \A e \in left : Unresolved(e) /\ ~IsRegistered(nedTypes', e)
                    /\ lastCall'.op = "doneLoadingNedFiles"
                       => \A e \in EntriesOf(Declared(nedFiles')) :
                              IsRegistered(nedTypes', e) \/ e \in left
              /\ lastError' = "unresolved" => left # {}]_vars

\* doneLoadingNedFiles has failed naming two unresolved types while another
\* type of the same files is registered
C3_Witness ==
    /\ lastCall.op = "doneLoadingNedFiles"
    /\ lastError = "unresolved"
    /\ Len(lastErrorNames) = 2
    /\ nedTypes # EmptyMap

\* C4: doneLoadingNedFilesCalled is set by the first call of
\* doneLoadingNedFiles and never reset, and every later call fails with the
\* called-twice error and leaves the file index, the package.ned index, the
\* pending list and the type index as they were.
C4_FinalizeOnce ==
    [][/\ doneLoadingNedFilesCalled => doneLoadingNedFilesCalled'
       /\ lastCall'.op = "doneLoadingNedFiles" => doneLoadingNedFilesCalled'
       /\ (lastCall'.op = "doneLoadingNedFiles" /\ doneLoadingNedFilesCalled)
          => lastError' = "called twice" /\ UNCHANGED cache]_vars

\* a second doneLoadingNedFiles has failed on a cache that holds files,
\* registered types and pending types
C4_Witness ==
    /\ lastCall.op = "doneLoadingNedFiles"
    /\ lastError = "called twice"
    /\ nedFiles # EmptyMap
    /\ nedTypes # EmptyMap
    /\ pendingList # <<>>

\* C5: a load whose key is in the file index already returns normally and
\* leaves the file index, the package.ned index, the pending list and the
\* type index as they were, before and after doneLoadingNedFiles.
C5_LoadIdempotent ==
    [][(lastCall'.op \in Loads /\ lastCall'.key \in DOMAIN nedFiles)
       => lastError' = "" /\ UNCHANGED cache]_vars

\* after doneLoadingNedFiles, a package.ned file that is loaded already has
\* been loaded again, with an expected package it does not declare, while
\* types are pending: a first load would have failed on each account
C5_Witness ==
    /\ lastCall.op \in Loads
    /\ lastError = ""
    /\ doneLoadingNedFilesCalled
    /\ pendingList # <<>>
    /\ lastCall.key \in DOMAIN nedFiles
    /\ IsMarkerKey(lastCall.key)
    /\ lastCall.expected.given
    /\ lastCall.expected.pkg # nedFiles[lastCall.key].package

\* two declarations of the files have the same qualified name
HasDuplicate(files) ==
    LET decl == Declared(files)
    IN  \E i, j \in 1..Len(decl) : i # j /\ decl[i].qname = decl[j].qname

\* this step keeps every entry of the type index as it is
NoOverwrite ==
    \A q \in DOMAIN nedTypes : q \in DOMAIN nedTypes' /\ nedTypes'[q] = nedTypes[q]

\* C6: when two declarations of the loaded files have the same qualified
\* name, doneLoadingNedFiles and every load of a further file after it fail,
\* and no step replaces an entry of the type index.
C6_DuplicateIsError ==
    [][/\ (/\ HasDuplicate(nedFiles')
           /\ \/ lastCall'.op = "doneLoadingNedFiles"
              \/ /\ lastCall'.op \in Loads
                 /\ doneLoadingNedFilesCalled
                 /\ lastCall'.key \notin DOMAIN nedFiles)
          => lastError' # ""
       /\ NoOverwrite]_vars

\* C7: after doneLoadingNedFiles has been called, a load of a package.ned
\* file that is not in the file index fails with the late-package.ned error
\* and leaves the cache as it was, and no step changes the package.ned index.
C7_LatePackageNed ==
    [][/\ (/\ lastCall'.op \in Loads
           /\ doneLoadingNedFilesCalled
           /\ lastCall'.key \notin DOMAIN nedFiles
           /\ IsMarkerKey(lastCall'.key))
          => lastError' = "late package.ned" /\ UNCHANGED cache
       /\ doneLoadingNedFilesCalled
          => packageDotNedFiles' = packageDotNedFiles]_vars

\* the load of a package.ned file by its full path has been refused after
\* doneLoadingNedFiles
C7_Witness ==
    /\ lastCall.op = "loadNedFile"
    /\ lastError = "late package.ned"
    /\ Len(lastCall.key) > 1
    /\ lastCall.key \notin DOMAIN nedFiles

\* this step is a load of a file that is not loaded yet and that gets as far
\* as the comparison of the declared package with the expected one
ReachedPackageCheck ==
    /\ lastCall'.op \in Loads
    /\ lastCall'.key \notin DOMAIN nedFiles
    /\ lastError' \notin {"late package.ned", "XML from string", "parse"}

\* C8, as claimed: such a load fails with the package-mismatch error exactly
\* when the expected package is non-empty and differs from the declared one,
\* and a mismatch leaves the file index as it was.
C8_Original ==
    [][ReachedPackageCheck
       => /\ lastError' = "package mismatch"
             <=> /\ lastCall'.expected.pkg # <<>>
                 /\ lastCall'.expected.pkg # lastCall'.declared
          /\ lastError' = "package mismatch" => nedFiles' = nedFiles]_vars

\* C8, amended: such a load fails with the package-mismatch error exactly
\* when an expected package is given (the argument is not nullptr), empty or
\* not, and differs from the declared one; with no expected package given
\* there is no mismatch error; a mismatch leaves the file index as it was.
C8_PackageMismatch ==
    [][ReachedPackageCheck
       => /\ lastError' = "package mismatch"
             <=> /\ lastCall'.expected.given
                 /\ lastCall'.expected.pkg # lastCall'.declared
          /\ lastError' = "package mismatch" => nedFiles' = nedFiles]_vars

\* a load given the empty expected package has failed on a file that
\* declares a package
C8_Witness ==
    /\ lastCall.op \in Loads
    /\ lastError = "package mismatch"
    /\ lastCall.expected = Given(<<>>)
    /\ lastCall.declared # <<>>
    /\ lastCall.key \notin DOMAIN nedFiles

C10_FailedLoadLeavesNothing ==
    (lastCall.op \in Loads /\ lastError \in {"redeclaration", "unresolved"})
    => /\ lastCall.key \notin DOMAIN nedFiles
       /\ \A e \in EntriesOf(pendingList) : e.node.file # lastCall.key
       /\ \A q \in DOMAIN nedTypes : nedTypes[q].node.file # lastCall.key

\* list names every element of S exactly once
IsListingOf(list, S) ==
    {list[i] : i \in 1..Len(list)} = S /\ Len(list) = Cardinality(S)

\* C11: whatever loads, registrations and getTypeNames calls came before,
\* the cached listing is empty or lists exactly the keys of the type index,
\* each once, and the listing a getTypeNames call returns lists exactly the
\* keys of the type index, each once.
C11_TypeNamesCoherent ==
    /\ nedTypeNames # <<>> => IsListingOf(nedTypeNames, DOMAIN nedTypes)
    /\ lastCall.op = "getTypeNames"
       => /\ IsListingOf(lastResult.value, DOMAIN nedTypes)
          /\ nedTypeNames = lastResult.value

\* getTypeNames has returned the names of types of which some were
\* registered by doneLoadingNedFiles and some by later loads
C11_Witness ==
    /\ lastCall.op = "getTypeNames"
    /\ Len(lastResult.value) >= 3
    /\ pendingList # <<>>
    /\ \E q \in DOMAIN nedTypes :
           /\ nedTypes[q].seq = Len(lastResult.value) - 1
           /\ lastResult.value[1] # q

\* C12: no folder of the folder map is a path prefix of another one.
C12_FoldersNotNested ==
    \A f, g \in DOMAIN folderPackages : f # g => ~StartsWith(g, f)

\* an absolute path without an empty, "." or ".." component after its root
IsCanonical(k) ==
    /\ Len(k) > 1
    /\ k[1] = ""
    /\ \A i \in 2..Len(k) : k[i] \notin {"", ".", ".."}

\* C13, as claimed: every key of the file index equals its canonical form.
C13_Original == \A k \in DOMAIN nedFiles : k = canonicalize(k)

\* C13, amended: every key that registerBuiltinDeclarations,
\* loadNedSourceFolder or loadNedFile adds to the file index is canonical,
\* and the key that loadNedText adds is the name it was given.
C13_KeysCanonical ==
    [][\A k \in DOMAIN nedFiles' \ DOMAIN nedFiles :
          IF lastCall'.op = "loadNedText" THEN k = lastCall'.key
          ELSE IsCanonical(k)]_vars

\* the file index holds the built-in declarations, a file loaded under a
\* name with a "." component, a text and the files of a folder that was
\* named relative to the working directory
C13_Witness ==
    /\ BuiltinKey \in DOMAIN nedFiles
    /\ <<"t1">> \in DOMAIN nedFiles
    /\ <<"", "r", "p", "A.ned">> \in DOMAIN nedFiles
    /\ lastCall.op = "loadNedSourceFolder"
    /\ lastCall.key = <<"", "r", "p">>
    /\ lastResult.value = 3
    /\ <<"", "r", "p", "B.ned">> \in DOMAIN nedFiles

\* C14: for every folder f of the folder map, getNedSourceFolderForFolder(f)
\* returns f, and getNedPackageForFolder of the source folder of f returns
\* the root package recorded for f.
C14_FolderRoundTrip ==
    \A f \in DOMAIN folderPackages :
        /\ (lastCall.op = "getNedSourceFolderForFolder" /\ lastResult.name = f)
           => lastResult.value = f
        /\ (/\ lastCall.op = "getNedPackageForFolder"
            /\ lastResult.name = getNedSourceFolderForFolder(folderPackages, f))
           => lastResult.value = folderPackages[f]

\* C15: in whatever context it is asked, resolveNedType returns a reference
\* that contains a dot as it is when it is a key of the type index, and the
\* empty string when it is not, also when it is the tail of a key.
C15_DottedIsQualified ==
    (lastCall.op = "resolveNedType" /\ Len(lastResult.name) > 1)
    => lastResult.value =
           IF lastResult.name \in DOMAIN nedTypes THEN lastResult.name ELSE <<>>

\* Outer.Inner has been asked inside the compound module p.Outer.User, in a
\* file of package p, with p.Outer.Inner registered, and has not resolved
C15_Witness ==
    /\ lastCall.op = "resolveNedType"
    /\ lastResult.name = <<"Outer", "Inner">>
    /\ lastResult.context.qname = <<"p", "Outer", "User">>
    /\ getTagCode(nedFiles, lastResult.context.element) = "compound-module"
    /\ nedFiles[lastResult.context.element.file].package = <<"p">>
    /\ <<"p", "Outer", "Inner">> \in DOMAIN nedTypes
    /\ lastResult.value = <<>>

\* the element is a compound module
IsCompound(files, element) ==
    /\ element.path # <<>>
    /\ DeclAt(files[element.file].types, element.path).tag = "compound-module"

\* the element lies in the types block of a compound module
IsNested(files, element) ==
    \E k \in 1..(Len(element.path) - 1) :
        DeclAt(files[element.file].types, SubSeq(element.path, 1, k)).tag
            = "compound-module"

\* the name an inner type r of the compound module of the context would have
InnerCandidate(files, context, r) ==
    (IF IsNested(files, context.element)
     THEN SubSeq(context.qname, 1, Len(context.qname) - 1)
     ELSE context.qname) \o r

\* the positions of the imports without wildcard that name a registered type
\* called r
ExactHits(imports, types, r) ==
    {i \in 1..Len(imports) :
        /\ \A j \in 1..Len(imports[i]) : imports[i][j] \notin {"*", "**"}
        /\ imports[i] \in DOMAIN types
        /\ imports[i][Len(imports[i])] = r[1]}

\* the registered types called r that the import pattern matches
WildcardHits(import, types, r) ==
    {q \in DOMAIN types : q[Len(q)] = r[1] /\ matches(import, q)}

\* the least element of a set of positions
Least(S) == CHOOSE i \in S : \A o \in S : i <= o

\* C16: for a reference without a dot, resolveNedType returns the inner type
\* of the enclosing compound module if that is registered; else the first
\* import without wildcard that names a registered type of that name; else
\* the type of that name in the package of the file if it is registered; else
\* a registered type of that name matched by the first wildcard import that
\* matches one; else the empty string.
C16_StepOrder ==
    (lastCall.op = "resolveNedType" /\ Len(lastResult.name) = 1)
    => LET context == lastResult.context
           r       == lastResult.name
           imports == nedFiles[context.element.file].imports
           inner   == InnerCandidate(nedFiles, context, r)
           exact   == ExactHits(imports, nedTypes, r)
           same    == nedFiles[context.element.file].package \o r
           wild    == {i \in 1..Len(imports) :
                          WildcardHits(imports[i], nedTypes, r) # {}}
       IN  IF IsCompound(nedFiles, context.element) /\ inner \in DOMAIN nedTypes
           THEN lastResult.value = inner
           ELSE IF exact # {}
           THEN lastResult.value = imports[Least(exact)]
           ELSE IF same \in DOMAIN nedTypes
           THEN lastResult.value = same
           ELSE IF wild # {}
           THEN lastResult.value
                    \in WildcardHits(imports[Least(wild)], nedTypes, r)
           ELSE lastResult.value = <<>>

\* B has been asked in a file of package q that imports r.B and *.B, with
\* r.B and q.B registered, and the import has won
C16_Witness ==
    /\ lastCall.op = "resolveNedType"
    /\ lastResult.name = <<"B">>
    /\ lastResult.context.element.path = <<>>
    /\ nedFiles[lastResult.context.element.file].package = <<"q">>
    /\ nedFiles[lastResult.context.element.file].imports
           = <<<<"r", "B">>, <<"*", "B">>>>
    /\ {<<"q", "B">>, <<"r", "B">>} \subseteq DOMAIN nedTypes
    /\ lastResult.value = <<"r", "B">>

\* the type index as it was when it held n entries
TypesBefore(types, n) == [q \in {k \in DOMAIN types : types[k].seq < n} |-> types[q]]

\* C17: every extends and interface-name reference of a registered type
\* resolves, in the parent context of the type and against the types that
\* were registered before it, to one of those types; so every type is
\* registered after the types its references stood for when it was inserted.
C17_RegisteredAfterDependencies ==
    \A q \in DOMAIN nedTypes :
        LET before == TypesBefore(nedTypes, nedTypes[q].seq)
        IN  \A name \in RefsOf(nedFiles, nedTypes[q]) :
                LET target == TargetIn(nedFiles, before, nedTypes[q], name)
                IN  /\ target # <<>>
                    /\ target \in DOMAIN before
                    /\ nedTypes[target].seq < nedTypes[q].seq

\* p.A, which extends B, was collected from A.ned before p.B was collected
\* from B.ned, and has been registered after it
C17_Witness ==
    /\ {<<"p", "A">>, <<"p", "B">>} \subseteq DOMAIN nedTypes
    /\ nedTypes[<<"p", "A">>].node.file = <<"", "r", "p", "A.ned">>
    /\ nedTypes[<<"p", "B">>].node.file = <<"", "r", "p", "B.ned">>
    /\ nedTypes[<<"p", "B">>].seq < nedTypes[<<"p", "A">>].seq
    /\ lastCall.op = "doneLoadingNedFiles"

\* a reference without a dot has been resolved by the scan of the wildcard
\* imports: no inner type, no import without wildcard and no type of the
\* package of the file answers it, and some wildcard import matches a
\* registered type of that name
ByWildcard ==
    /\ lastCall.op = "resolveNedType"
    /\ Len(lastResult.name) = 1
    /\ LET context == lastResult.context
           r       == lastResult.name
           file    == nedFiles[context.element.file]
       IN  /\ ~(/\ IsCompound(nedFiles, context.element)
                 /\ InnerCandidate(nedFiles, context, r) \in DOMAIN nedTypes)
           /\ ExactHits(file.imports, nedTypes, r) = {}
           /\ file.package \o r \notin DOMAIN nedTypes
           /\ \E i \in 1..Len(file.imports) :
                  WildcardHits(file.imports[i], nedTypes, r) # {}

\* the registered types that the first matching wildcard import matches
FirstWildcardHits ==
    LET imports == nedFiles[lastResult.context.element.file].imports
        wild    == {i \in 1..Len(imports) :
                       WildcardHits(imports[i], nedTypes, lastResult.name) # {}}
    IN  WildcardHits(imports[Least(wild)], nedTypes, lastResult.name)

\* C18 as stated: among the registered types that the first matching wildcard
\* import matches, resolveNedType returns the one inserted into the type index
\* earliest.
C18_Original ==
    ByWildcard
    => \A h \in FirstWildcardHits :
           nedTypes[lastResult.value].seq <= nedTypes[h].seq

\* C18: among the registered types that the first matching wildcard import
\* matches, resolveNedType returns the one that comes first in the listing of
\* the registered names (getTypeNames), which follows the iteration order of
\* the type index.
C18_FirstInListing ==
    ByWildcard
    => \E i \in 1..Len(nedTypeNames) :
           /\ nedTypeNames[i] = lastResult.value
           /\ nedTypeNames[i] \in FirstWildcardHits
           /\ \A j \in 1..(i - 1) : nedTypeNames[j] \notin FirstWildcardHits

\* B has been resolved by the import *.B with p.B and r.B registered, r.B
\* first, and p.B has been returned
C18_Witness ==
    /\ ByWildcard
    /\ lastResult.name = <<"B">>
    /\ {<<"p", "B">>, <<"r", "B">>} \subseteq FirstWildcardHits
    /\ nedTypes[<<"r", "B">>].seq < nedTypes[<<"p", "B">>].seq
    /\ lastResult.value = <<"p", "B">>


\* C19: for a reference r without a dot made in a compound module, the inner
\* type tried is the context name followed by r when the compound module is a
\* top-level type, and the context name without its last segment followed by
\* r when the compound module is an inner type itself; resolveNedType returns
\* it when it is registered. So Inner asked in the inner compound module
\* p.Outer.User, and asked in the context (Outer, p.Outer) of the inner types
\* of Outer, both give p.Outer.Inner.
C19_InnerTypeResolution ==
    (/\ lastCall.op = "resolveNedType"
     /\ Len(lastResult.name) = 1
     /\ IsCompound(nedFiles, lastResult.context.element))
    => LET context   == lastResult.context
           r         == lastResult.name
           candidate ==
               IF IsNested(nedFiles, context.element)
               THEN SubSeq(context.qname, 1, Len(context.qname) - 1) \o r
               ELSE context.qname \o r
       IN  /\ candidate \in DOMAIN nedTypes => lastResult.value = candidate
           /\ (/\ r = <<"Inner">>
               /\ context.qname \in {<<"p", "Outer">>, <<"p", "Outer", "User">>}
               /\ <<"p", "Outer", "Inner">> \in DOMAIN nedTypes)
              => lastResult.value = <<"p", "Outer", "Inner">>

\* Inner has been asked in the inner compound module p.Outer.User with
\* p.Outer.Inner registered
C19_Witness ==
    /\ lastCall.op = "resolveNedType"
    /\ lastResult.name = <<"Inner">>
    /\ lastResult.context.qname = <<"p", "Outer", "User">>
    /\ IsCompound(nedFiles, lastResult.context.element)
    /\ IsNested(nedFiles, lastResult.context.element)
    /\ <<"p", "Outer", "Inner">> \in DOMAIN nedTypes
    /\ lastResult.value = <<"p", "Outer", "Inner">>


\* loadNedSourceFolder("/r/pkg") has been called without excluded packages
LoadedPkgFolder ==
    /\ lastCall.op = "loadNedSourceFolder"
    /\ lastCall.key = <<"", "r", "pkg">>
    /\ lastCall.excluded = {}

\* C20 as stated: with M.ned declaring package zzz in the subfolder a of
\* /r/pkg, loadNedSourceFolder("/r/pkg") fails with a package mismatch whose
\* expected package is the empty package when /r/pkg has no package.ned, and
\* pkg.a when /r/pkg/package.ned declares pkg.
C20_Original ==
    LoadedPkgFolder
    => /\ lastError = "package mismatch"
       /\ lastErrorNames =
              <<<<"zzz">>,
                IF fileExists(<<"", "r", "pkg", "package.ned">>)
                THEN <<"pkg", "a">> ELSE <<>>>>

\* C20: with M.ned declaring package zzz in the subfolder a of /r/pkg,
\* loadNedSourceFolder("/r/pkg") fails with a package mismatch whose expected
\* package is a when /r/pkg has no package.ned, and pkg.a when
\* /r/pkg/package.ned declares pkg.
C20_MismatchScenario ==
    LoadedPkgFolder
    => /\ lastError = "package mismatch"
       /\ lastErrorNames =
              <<<<"zzz">>,
                IF fileExists(<<"", "r", "pkg", "package.ned">>)
                THEN <<"pkg", "a">> ELSE <<"a">>>>

\* the folder /r/pkg without package.ned has been loaded and the load has
\* failed on a/M.ned
C20_Witness ==
    /\ LoadedPkgFolder
    /\ ~fileExists(<<"", "r", "pkg", "package.ned">>)
    /\ disk[<<"", "r", "pkg", "a", "M.ned">>].package = <<"zzz">>
    /\ lastError = "package mismatch"
    /\ <<"", "r", "pkg", "a", "M.ned">> \notin DOMAIN nedFiles


\* C21: a run of the registration loop over a pending list of n entries
\* makes at most n + 1 passes, every pass but the last erases at least one
\* entry, and the run ends with the pending list empty or with an error.
C21_LoopTerminates ==
    lastPasses.erased # <<>>
    => /\ \A k \in 1..(Len(lastPasses.erased) - 1) : lastPasses.erased[k] >= 1
       /\ Len(lastPasses.erased) <= lastPasses.pending + 1
       /\ pendingList = <<>> \/ lastError \in {"unresolved", "redeclaration"}

\* a run over two entries has taken three passes: one entry erased in the
\* first, one in the second, none left for the third
C21_Witness ==
    /\ lastPasses.pending = 2
    /\ lastPasses.erased = <<1, 1, 0>>
    /\ pendingList = <<>>
    /\ lastError = ""


\* the segments of r are the last segments of q
IsSuffix(r, q) ==
    /\ Len(r) <= Len(q)
    /\ SubSeq(q, Len(q) - Len(r) + 1, Len(q)) = r

\* C22: whatever the context and the reference r, resolveNedType returns the
\* empty string or the name of a registered type that is r or ends in "." r.
C22_ResolverSound ==
    lastCall.op = "resolveNedType"
    => \/ lastResult.value = <<>>
       \/ /\ lastResult.value \in DOMAIN nedTypes
          /\ IsSuffix(lastResult.name, lastResult.value)

\* a reference without a dot has been resolved to a registered type of
\* another package than that of the file, while types of other names are
\* registered too
C22_Witness ==
    /\ lastCall.op = "resolveNedType"
    /\ Len(lastResult.name) = 1
    /\ Len(lastResult.value) = 2
    /\ lastResult.value \in DOMAIN nedTypes
    /\ lastResult.value[1]
           # nedFiles[lastResult.context.element.file].package[1]
    /\ \E q \in DOMAIN nedTypes : q[Len(q)] # lastResult.name[1]


\* C23: when doneLoadingNedFiles or a load made after it fails with the
\* unresolved-dependency error, doneLoadingNedFilesCalled is set and stays
\* set, the entries left unregistered are in the pending list, and so is
\* every entry that was pending before and is still unregistered; when a
\* later load of a new file returns normally, the entries that were pending
\* are registered and the pending list is empty.
C23_PendingRetried ==
    [][/\ doneLoadingNedFilesCalled => doneLoadingNedFilesCalled'
       /\ (RanRegistration /\ lastError' = "unresolved")
          => /\ doneLoadingNedFilesCalled'
             /\ pendingList' # <<>>
             /\ \A e \in EntriesOf(pendingList') : ~IsRegistered(nedTypes', e)
             /\ \A e \in EntriesOf(pendingList) :
                    IsRegistered(nedTypes', e) \/ e \in EntriesOf(pendingList')
             /\ lastCall'.op \in Loads
                => \A e \in EntriesOf(collectFile(nedFiles', lastCall'.key)) :
                       IsRegistered(nedTypes', e) \/ e \in EntriesOf(pendingList')
       /\ (/\ doneLoadingNedFilesCalled
           /\ pendingList # <<>>
           /\ lastCall'.op \in Loads
           /\ lastCall'.key \notin DOMAIN nedFiles
           /\ lastError' = "")
          => /\ pendingList' = <<>>
             /\ \A e \in EntriesOf(pendingList) : IsRegistered(nedTypes', e)]_vars

\* after doneLoadingNedFiles, the load of B.ned has returned normally and
\* its run of the registration loop has registered p.B and then p.A, which
\* was pending since an earlier call failed
C23_Witness ==
    /\ doneLoadingNedFilesCalled
    /\ lastCall.op = "loadNedFile"
    /\ lastCall.key = <<"", "r", "p", "B.ned">>
    /\ lastError = ""
    /\ lastPasses.pending = 2
    /\ pendingList = <<>>
    /\ {<<"p", "A">>, <<"p", "B">>} \subseteq DOMAIN nedTypes
    /\ nedTypes[<<"p", "A">>].node.file = <<"", "r", "p", "A.ned">>
    /\ nedTypes[<<"p", "B">>].node.file = lastCall.key
    /\ nedTypes[<<"p", "B">>].seq < nedTypes[<<"p", "A">>].seq


\* what a query for name in context returns when types are the registered
\* ones
Answer(files, types, context, name) ==
    resolveNedType(files, types, KeysInOrder(DOMAIN types), context, name).qname

\* C24 as stated: every extends and interface-name reference of a registered
\* type resolves, in the parent context of the type, to the name it resolved
\* to against the types that were registered before the type.
C24_Original ==
    \A q \in DOMAIN nedTypes :
        \A name \in RefsOf(nedFiles, nedTypes[q]) :
            TargetIn(nedFiles, nedTypes, nedTypes[q], name)
                = TargetIn(nedFiles, TypesBefore(nedTypes, nedTypes[q].seq),
                           nedTypes[q], name)

\* every reference of a registered type resolves to a registered type: the
\* one it resolved to when the type was registered, or one registered after
\* the type
StillResolved ==
    \A q \in DOMAIN nedTypes :
        \A name \in RefsOf(nedFiles, nedTypes[q]) :
            \E now \in {TargetIn(nedFiles, nedTypes, nedTypes[q], name)} :
                /\ now \in DOMAIN nedTypes
                /\ \/ nedTypes[now].seq > nedTypes[q].seq
                   \/ now = TargetIn(nedFiles,
                                     TypesBefore(nedTypes, nedTypes[q].seq),
                                     nedTypes[q], name)

\* C24: every extends and interface-name reference of a registered type
\* resolves, in every later state, to the type it resolved to when the type
\* was registered or to a type registered since; and a query that had a
\* non-empty answer when the type index held fewer entries is answered with
\* a registered type: the same one, or one registered since.
C24_ResolutionPersists ==
    /\ StillResolved
    /\ lastCall.op = "resolveNedType"
       => \A n \in 0..Cardinality(DOMAIN nedTypes) :
              \E then \in {Answer(nedFiles, TypesBefore(nedTypes, n),
                                   lastResult.context, lastResult.name)} :
                  then # <<>>
                  => /\ lastResult.value \in DOMAIN nedTypes
                     /\ \/ lastResult.value = then
                        \/ nedTypes[lastResult.value].seq >= n

\* the reference B of Zed.E, which stood for r.B when Zed.E was registered,
\* resolves to a type registered after Zed.E
C24_Witness ==
    /\ <<"Zed", "E">> \in DOMAIN nedTypes
    /\ LET e == nedTypes[<<"Zed", "E">>]
       IN  /\ TargetIn(nedFiles, TypesBefore(nedTypes, e.seq), e, <<"B">>)
                  = <<"r", "B">>
           /\ TargetIn(nedFiles, nedTypes, e, <<"B">>) # <<"r", "B">>
           /\ TargetIn(nedFiles, nedTypes, e, <<"B">>) \in DOMAIN nedTypes


====
